---------------------------- MODULE Spec2Model ----------------------------
(***************************************************************************)
(* A model of epp, a minimal terminal text editor (src/epp.cpp).           *)
(*                                                                         *)
(* A byte (char) is a one-character string; the two bytes TLA+ has no      *)
(* escape for, '\b' (0x08) and 127, are the tokens BS and DEL.  A          *)
(* std::string is a sequence of bytes, a std::vector<std::string> a        *)
(* sequence of those.  C++ indices are 0-based and kept so in line, column *)
(* and line_offset; element i of a vector is element i + 1 of a sequence.  *)
(***************************************************************************)
EXTENDS Integers, Sequences, FiniteSets, TLC

----------------------------------------------------------------------------
(* Bounds of the model. *)

\* Bytes the edit loop reads from standard input in one run.
MaxInputs == 3

\* The largest height() the terminal reports (ws_row is at most MaxHeight + 1).
MaxHeight == 2

----------------------------------------------------------------------------
(* Program constants. *)

NL == "\n"
BS == "BS"
DEL == "DEL"
TAB == "\t"
SPACE == " "

\* insert(' ', 4)
TabWidth == 4

\* line + 10, line - 10
PageJump == 10

\* std::string{"BFNPAECVQ"}
MoveLetters == {"B", "F", "N", "P", "A", "E", "C", "V", "Q"}

\* const char *output = "out"
DefaultOutput == "out"

----------------------------------------------------------------------------
(* Inputs of a run. *)

\* Bytes that are no command: inserted as they are.
Literals == {"x", "y"}

\* The bytes standard input may deliver.
InputBytes == {NL, "O", BS, DEL, TAB, "K", "S"} \cup MoveLetters \cup Literals

\* argv[1] when the editor is started with a file argument.
ArgPath == "f"

\* The editor started without a file argument (argc == 1).
NoArg == "-"

Paths == {DefaultOutput, ArgPath}

\* A path that names no file.
NoFile == [exists |-> FALSE, data |-> << >>]

File(bytes) == [exists |-> TRUE, data |-> bytes]

\* What the file at argv[1] may hold at startup: missing, empty, one empty
\* line, "ab\ncd\n", "hello" without a final newline, "a\nb\nc\n", and
\* twelve lines ("ab", then eleven empty ones), more than a page move jumps.
StartFiles ==
    { NoFile,
      File(<< >>),
      File(<<NL>>),
      File(<<"a", "b", NL, "c", "d", NL>>),
      File(<<"h", "e", "l", "l", "o">>),
      File(<<"a", NL, "b", NL, "c", NL>>),
      File(<<"a", "b", NL, NL, NL, NL, NL, NL, NL, NL, NL, NL, NL, NL>>) }

----------------------------------------------------------------------------
(* Sequences. *)

Min(a, b) == IF a < b THEN a ELSE b

Max(a, b) == IF a > b THEN a ELSE b

\* count copies of c
Repeat(c, count) == [i \in 1..count |-> c]

\* vector::insert(begin() + pos, x), for 0 <= pos <= size
InsertAt(s, pos, x) == SubSeq(s, 1, pos) \o <<x>> \o SubSeq(s, pos + 1, Len(s))

\* vector::erase(begin() + pos), for 0 <= pos < size
EraseAt(s, pos) == SubSeq(s, 1, pos) \o SubSeq(s, pos + 2, Len(s))

\* An insert that puts c in once, whatever count is.
StrInsert_Once(s, pos, count, c) ==
    SubSeq(s, 1, pos) \o <<c>> \o SubSeq(s, pos + 1, Len(s))

\* string::insert(pos, count, c), for 0 <= pos <= size
StrInsert(s, pos, count, c) ==
    SubSeq(s, 1, pos) \o Repeat(c, count) \o SubSeq(s, pos + 1, Len(s))

\* string::erase(pos, 1), for 0 <= pos <= size
StrErase(s, pos) == SubSeq(s, 1, pos) \o SubSeq(s, pos + 2, Len(s))

----------------------------------------------------------------------------
(* struct Editor.  An operation takes and returns the editor's fields as a *)
(* record e; e.st tells how the call ended: "ok", "throw" (a               *)
(* std::out_of_range no one catches) or "ub" (an element access outside    *)
(* the vector: undefined behaviour).                                       *)

\* lines[line] names an element of lines
LineOk(e) == 0 <= e.line /\ e.line < Len(e.lines)

\* lines[line]
CurLine(e) == e.lines[e.line + 1]

Undefined(e) == [e EXCEPT !.st = "ub"]

Thrown(e) == [e EXCEPT !.st = "throw"]

\* new_line that puts the empty line after lines[line].
new_line_Below(e) ==
    IF 0 <= e.line /\ e.line < Len(e.lines)
    THEN [e EXCEPT !.column = 0, !.lines = InsertAt(e.lines, e.line + 1, << >>)]
    ELSE Undefined([e EXCEPT !.column = 0])

new_line(e) ==
    IF 0 <= e.line /\ e.line <= Len(e.lines)
    THEN [e EXCEPT !.column = 0, !.lines = InsertAt(e.lines, e.line, << >>)]
    ELSE Undefined([e EXCEPT !.column = 0])

\* delete_line that leaves line where it was after erasing the last line.
delete_line_KeepIndex(e) ==
    IF Len(e.lines) = 1 THEN e
    ELSE IF ~LineOk(e) THEN Undefined(e)
    ELSE [e EXCEPT !.lines = EraseAt(e.lines, e.line), !.column = 0]

\* delete_line without its test for the only line.
delete_line_NoGuard(e) ==
    IF ~LineOk(e) THEN Undefined(e)
    ELSE LET erased == EraseAt(e.lines, e.line)
         IN  [e EXCEPT !.lines = erased,
                       !.column = 0,
                       !.line = IF e.line >= Len(erased) THEN e.line - 1 ELSE e.line]

delete_line(e) ==
    IF Len(e.lines) = 1 THEN e
    ELSE IF ~LineOk(e) THEN Undefined(e)
    ELSE LET erased == EraseAt(e.lines, e.line)
         IN  [e EXCEPT !.lines = erased,
                       !.column = 0,
                       !.line = IF e.line >= Len(erased) THEN e.line - 1 ELSE e.line]

\* backspace that erases at the cursor, not before it.
backspace_EraseAtCursor(e) ==
    IF e.column = 0 THEN e
    ELSE IF ~LineOk(e) THEN Undefined(e)
    ELSE IF e.column > Len(CurLine(e)) THEN Thrown(e)
    ELSE [e EXCEPT !.column = e.column - 1,
                   !.lines[e.line + 1] = StrErase(@, e.column)]

backspace(e) ==
    IF e.column = 0 THEN e
    ELSE LET col == e.column - 1
         IN  IF ~LineOk(e) THEN Undefined([e EXCEPT !.column = col])
             ELSE IF col < 0 \/ col > Len(CurLine(e))
                  THEN Thrown([e EXCEPT !.column = col])
                  ELSE [e EXCEPT !.column = col,
                                 !.lines[e.line + 1] = StrErase(@, col)]

\* insert that appends to the line, wherever the cursor is.
insert_AtEnd(e, c, count) ==
    IF ~LineOk(e) THEN Undefined(e)
    ELSE [e EXCEPT !.lines[e.line + 1] = @ \o Repeat(c, count),
                   !.column = e.column + count]

insert(e, c, count) ==
    IF ~LineOk(e) THEN Undefined(e)
    ELSE IF e.column < 0 \/ e.column > Len(CurLine(e)) THEN Thrown(e)
    ELSE [e EXCEPT !.lines[e.line + 1] = StrInsert(@, e.column, count, c),
                   !.column = e.column + count]

\* A move to another line that leaves column as it was.
ClampColumn_None(e) == IF LineOk(e) THEN e ELSE Undefined(e)

\* column = std::min(static_cast<int>(lines[line].size()), column)
ClampColumn(e) ==
    IF LineOk(e)
    THEN [e EXCEPT !.column = Min(Len(CurLine(e)), e.column)]
    ELSE Undefined(e)

\* static_cast<int>(lines.size() - 1): -1 for the empty vector
LastIndex(e) == Len(e.lines) - 1

move(e, c) ==
    CASE c = "B" -> [e EXCEPT !.column = Max(0, e.column - 1)]
      [] c = "F" -> IF LineOk(e)
                    THEN [e EXCEPT !.column = Min(Len(CurLine(e)), e.column + 1)]
                    ELSE Undefined(e)
      [] c = "N" -> ClampColumn([e EXCEPT !.line = Min(LastIndex(e), e.line + 1)])
      [] c = "P" -> ClampColumn([e EXCEPT !.line = Max(0, e.line - 1)])
      [] c = "A" -> [e EXCEPT !.column = 0]
      [] c = "E" -> IF LineOk(e)
                    THEN [e EXCEPT !.column = Len(CurLine(e))]
                    ELSE Undefined(e)
      [] c = "V" -> ClampColumn([e EXCEPT !.line = Min(LastIndex(e), e.line + PageJump)])
      [] c = "C" -> ClampColumn([e EXCEPT !.line = Max(0, e.line - PageJump)])
      [] c = "Q" -> [e EXCEPT !.running = FALSE]
      [] OTHER -> e

\* input whose newline inserts the line first and advances line afterwards.
input_InsertBeforeAdvance(e, c) ==
    CASE c = NL -> LET r == new_line(e) IN [r EXCEPT !.line = e.line + 1]
      [] c = "O" -> new_line(e)
      [] c \in {BS, DEL} -> backspace(e)
      [] c = TAB -> insert(e, SPACE, TabWidth)
      [] c = "K" -> delete_line(e)
      [] c = "S" -> e
      [] OTHER -> IF c \in MoveLetters THEN move(e, c) ELSE insert(e, c, 1)

\* Editor::input but for save(), which writes the file and no field.
input(e, c) ==
    CASE c = NL -> new_line([e EXCEPT !.line = e.line + 1])
      [] c = "O" -> new_line(e)
      [] c \in {BS, DEL} -> backspace(e)
      [] c = TAB -> insert(e, SPACE, TabWidth)
      [] c = "K" -> delete_line(e)
      [] c = "S" -> e
      [] OTHER -> IF c \in MoveLetters THEN move(e, c) ELSE insert(e, c, 1)

\* adjust_offset that scrolls one line too few when the cursor is below.
adjust_offset_OffByOne(e, height) ==
    LET line_count == e.line + 1
    IN  IF line_count - e.line_offset > height
        THEN [e EXCEPT !.line_offset = e.line - height]
        ELSE IF e.line - e.line_offset < 0
             THEN [e EXCEPT !.line_offset = e.line]
             ELSE e

adjust_offset(e, height) ==
    LET line_count == e.line + 1
    IN  IF line_count - e.line_offset > height
        THEN [e EXCEPT !.line_offset = line_count - height]
        ELSE IF e.line - e.line_offset < 0
             THEN [e EXCEPT !.line_offset = e.line]
             ELSE e

----------------------------------------------------------------------------
(* Files: Editor::load and Editor::save. *)

\* Index of the first '\n' of bytes, 0 when there is none.
FirstNL(bytes) ==
    IF \E i \in 1..Len(bytes) : bytes[i] = NL
    THEN CHOOSE i \in 1..Len(bytes) :
            bytes[i] = NL /\ \A j \in 1..(i - 1) : bytes[j] # NL
    ELSE 0

RECURSIVE GetLines(_)
\* The std::getline loop: one line per '\n', and a last line without one.
GetLines(bytes) ==
    IF bytes = << >> THEN << >>
    ELSE LET k == FirstNL(bytes)
         IN  IF k = 0 THEN <<bytes>>
             ELSE <<SubSeq(bytes, 1, k - 1)>> \o GetLines(SubSeq(bytes, k + 1, Len(bytes)))

\* lines.clear(), then the lines of the file; none when the file cannot be opened.
load(file) == IF file.exists THEN GetLines(file.data) ELSE << >>

RECURSIVE SaveBytes_Separated(_)
\* save that puts '\n' between the lines, none after the last.
SaveBytes_Separated(ls) ==
    IF ls = << >> THEN << >>
    ELSE IF Len(ls) = 1 THEN Head(ls)
    ELSE Head(ls) \o <<NL>> \o SaveBytes_Separated(Tail(ls))

RECURSIVE SaveBytes(_)
\* std::ostream_iterator<std::string>(f, "\n"): each line, then '\n'.
SaveBytes(ls) ==
    IF ls = << >> THEN << >>
    ELSE Head(ls) \o <<NL>> \o SaveBytes(Tail(ls))

----------------------------------------------------------------------------
(* struct Tui.  The screen is what each terminal row shows, without its    *)
(* trailing blanks (a blank cell and an unwritten cell look the same).     *)
(* Lines are taken to fit the terminal's width.                            *)

\* Rows of the largest terminal.
ScreenRows == 1..(MaxHeight + 1)

BlankScreen == [r \in ScreenRows |-> << >>]

RECURSIVE Trim(_)
\* s without its trailing blanks
Trim(s) ==
    IF s # << >> /\ s[Len(s)] = SPACE THEN Trim(SubSeq(s, 1, Len(s) - 1)) ELSE s

\* A row that showed old, after text is printed from its first column.
Overwrite(old, text) == text \o SubSeq(old, Len(text) + 1, Len(old))

\* What an out-of-range read of a line prints.
Garbage == <<"?">>

\* std::min(height(), static_cast<int>(lines.size() - offset))
RowCount(ls, offset, h) == Min(h, Len(ls) - offset)

\* The blanks display prints after text on row r (1-based), from back_buffer bb.
Padding(text, bb, r) ==
    IF r <= Len(bb) /\ Len(text) < Len(bb[r])
    THEN Repeat(SPACE, Len(bb[r]) - Len(text))
    ELSE << >>

\* Tui::display: the screen after it, what it printed row by row (the line,
\* then pad blanks), and whether every lines[offset + i] exists.
display(ls, offset, bb, scr, h) ==
    LET count == RowCount(ls, offset, h)
        InRange(r) == 0 <= offset + r - 1 /\ offset + r - 1 < Len(ls)
        Text(r) == IF InRange(r) THEN ls[offset + r] ELSE Garbage
        Drawn(r) == Trim(Overwrite(scr[r], Text(r) \o Padding(Text(r), bb, r)))
    IN  [screen |-> [r \in ScreenRows |-> IF r <= count THEN Drawn(r) ELSE scr[r]],
         frame |-> [r \in 1..count |->
                      [text |-> Text(r), pad |-> Len(Padding(Text(r), bb, r))]],
         cursor |-> <<Max(count, 0) + 1, 1>>,
         st |-> IF \A r \in 1..count : InRange(r) THEN "ok" ELSE "ub"]

\* Tui::setup_back_buffer: std::span(lines).subspan(offset, count)
setup_back_buffer(ls, offset, h) ==
    LET count == RowCount(ls, offset, h)
    IN  IF 0 <= offset /\ offset <= Len(ls) /\ 0 <= count
        THEN [back_buffer |-> SubSeq(ls, offset + 1, offset + count), st |-> "ok"]
        ELSE [back_buffer |-> << >>, st |-> "ub"]

----------------------------------------------------------------------------
(* The state of a run. *)

VARIABLES
    lines,        \* Editor::lines
    line,         \* Editor::line
    column,       \* Editor::column
    line_offset,  \* Editor::line_offset
    running,      \* Editor::running
    output,       \* Editor::output, the path load and save use
    back_buffer,  \* Tui::back_buffer
    lflag,        \* the terminal's c_lflag bits ECHO and ICANON
    rows,         \* the terminal's ws_row
    screen,       \* what each terminal row shows
    frame,        \* what the last display call printed, row by row
    cursor,       \* the hardware cursor, <<row, column>>, 1-based
    fs,           \* the files, by path
    arg,          \* argv[1], or NoArg
    input_byte,   \* main's local input: the byte last read
    nread,        \* bytes read from standard input so far
    pc            \* where main is

vars == <<lines, line, column, line_offset, running, output, back_buffer, lflag,
          rows, screen, frame, cursor, fs, arg, input_byte, nread, pc>>

editor_vars == <<lines, line, column, line_offset, running>>

\* The editor's fields as the record the operations take.
Ed == [lines |-> lines, line |-> line, column |-> column,
       line_offset |-> line_offset, running |-> running, st |-> "ok"]

\* tui.height(): w.ws_row - 1
height == rows - 1

Heights == 1..MaxHeight

Init ==
    /\ lines = << << >> >>
    /\ line = 0
    /\ column = 0
    /\ line_offset = 0
    /\ running = TRUE
    /\ output = DefaultOutput
    /\ back_buffer = << >>
    /\ lflag = {"ECHO", "ICANON"}
    /\ rows \in {h + 1 : h \in Heights}
    /\ screen = BlankScreen
    /\ frame = << >>
    /\ cursor = <<1, 1>>
    /\ arg \in {NoArg, ArgPath}
    /\ fs \in {f \in [Paths -> StartFiles] :
                 /\ f[DefaultOutput] = NoFile
                 /\ arg = NoArg => f[ArgPath] = NoFile}
    /\ input_byte = ""
    /\ nread = 0
    /\ pc = "start"

----------------------------------------------------------------------------
(* main. *)

\* What an access outside the vector may leave in lines, when it writes, and
\* in column, when it reads a size there.
HavocLines == {<< >>, << << >> >>}

HavocInts == {-1, 0, 1}

\* Lines 215-221: Tui() clears ECHO and ICANON; with a file argument,
\* output = argv[1] and load().
Startup ==
    /\ pc = "start"
    /\ lflag' = lflag \ {"ECHO", "ICANON"}
    /\ IF arg # NoArg
       THEN output' = arg /\ lines' = load(fs[arg])
       ELSE UNCHANGED <<output, lines>>
    /\ pc' = "draw"
    /\ UNCHANGED <<line, column, line_offset, running, back_buffer, rows, screen, frame,
                   cursor, fs, arg, input_byte, nread>>

\* Lines 225-227: display, setup_back_buffer(editor.lines), move_cursor.
InitialDraw ==
    /\ pc = "draw"
    /\ LET d == display(lines, line_offset, back_buffer, screen, height)
           b == setup_back_buffer(lines, 0, height)
       IN  /\ screen' = d.screen
           /\ frame' = d.frame
           /\ back_buffer' = b.back_buffer
    /\ cursor' = <<line - line_offset + 1, column + 1>>
    /\ pc' = "read"
    /\ UNCHANGED <<editor_vars, output, lflag, rows, fs, arg, input_byte, nread>>

\* save that writes nothing.
Saved_Nothing(c) == fs

\* Editor::save: the file at output holds the lines, each ended by '\n'.
Saved(c) == IF c = "S" THEN [fs EXCEPT ![output] = File(SaveBytes(lines))] ELSE fs

\* The loop without its test of running: it reads on after a quit.
ReadInput_NoTest(c) ==
    /\ pc = "read"
    /\ nread < MaxInputs
    /\ input_byte' = c
    /\ nread' = nread + 1
    /\ LET r == input(Ed, c)
       IN  \/ /\ r.st = "ok"
              /\ lines' = r.lines /\ line' = r.line /\ column' = r.column
              /\ running' = r.running
              /\ fs' = Saved(c)
              /\ pc' = "adjust"
           \/ /\ r.st = "throw"
              \* std::terminate: no destructor runs
              /\ lines' = r.lines /\ line' = r.line /\ column' = r.column
              /\ pc' = "crashed"
              /\ UNCHANGED <<running, fs>>
           \/ /\ r.st = "ub"
              \* the process is killed, or goes on with what the access
              \* read or overwrote
              /\ lines' \in HavocLines \cup {r.lines}
              /\ line' = r.line
              /\ column' \in HavocInts \cup {r.column}
              /\ pc' \in {"adjust", "crashed"}
              /\ UNCHANGED <<running, fs>>
    /\ UNCHANGED <<line_offset, output, back_buffer, lflag, rows, screen, frame, cursor, arg>>

\* Lines 229-232: the loop's test, buf->sbumpc() and editor.input(input).
ReadInput(c) ==
    /\ pc = "read"
    /\ running
    /\ nread < MaxInputs
    /\ input_byte' = c
    /\ nread' = nread + 1
    /\ LET r == input(Ed, c)
       IN  \/ /\ r.st = "ok"
              /\ lines' = r.lines /\ line' = r.line /\ column' = r.column
              /\ running' = r.running
              /\ fs' = Saved(c)
              /\ pc' = "adjust"
           \/ /\ r.st = "throw"
              \* std::terminate: no destructor runs
              /\ lines' = r.lines /\ line' = r.line /\ column' = r.column
              /\ pc' = "crashed"
              /\ UNCHANGED <<running, fs>>
           \/ /\ r.st = "ub"
              \* the process is killed, or goes on with what the access
              \* read or overwrote
              /\ lines' \in HavocLines \cup {r.lines}
              /\ line' = r.line
              /\ column' \in HavocInts \cup {r.column}
              /\ pc' \in {"adjust", "crashed"}
              /\ UNCHANGED <<running, fs>>
    /\ UNCHANGED <<line_offset, output, back_buffer, lflag, rows, screen, frame, cursor, arg>>

\* Line 234: editor.adjust_offset(tui.height())
AdjustOffset ==
    /\ pc = "adjust"
    /\ line_offset' = adjust_offset(Ed, height).line_offset
    /\ pc' = "display"
    /\ UNCHANGED <<lines, line, column, running, output, back_buffer, lflag, rows,
                   screen, frame, cursor, fs, arg, input_byte, nread>>

\* Line 240: tui.display(editor.lines, editor.line_offset)
Display ==
    /\ pc = "display"
    /\ LET d == display(lines, line_offset, back_buffer, screen, height)
       IN  /\ screen' = d.screen
           /\ frame' = d.frame
           /\ cursor' = d.cursor
           /\ \/ d.st = "ok" /\ pc' = "cursor"
              \/ d.st = "ub" /\ pc' \in {"cursor", "crashed"}
    /\ UNCHANGED <<editor_vars, output, back_buffer, lflag, rows, fs, arg,
                   input_byte, nread>>

\* Lines 237-244: tui.move_cursor(visual_column, visual_line), flush
MoveCursor ==
    /\ pc = "cursor"
    /\ cursor' = <<line - line_offset + 1, column + 1>>
    /\ pc' = "backbuf"
    /\ UNCHANGED <<editor_vars, output, back_buffer, lflag, rows, screen, frame, fs, arg,
                   input_byte, nread>>

\* Line 246: tui.setup_back_buffer(editor.lines, editor.line_offset)
SetupBackBuffer ==
    /\ pc = "backbuf"
    /\ LET b == setup_back_buffer(lines, line_offset, height)
       IN  \/ b.st = "ok" /\ back_buffer' = b.back_buffer /\ pc' = "read"
           \/ /\ b.st = "ub"
              \* the span is the elements display has just read, nothing
              \* written in between: the same copies, or the process is killed
              /\ back_buffer' = [r \in 1..Len(frame) |-> frame[r].text]
              /\ pc' \in {"read", "crashed"}
    /\ UNCHANGED <<editor_vars, output, lflag, rows, screen, frame, cursor, fs, arg,
                   input_byte, nread>>

\* Lines 229, 249: the loop ends, main returns and ~Tui() sets ECHO and ICANON.
Exit ==
    /\ pc = "read"
    /\ ~running
    /\ lflag' = lflag \cup {"ECHO", "ICANON"}
    /\ pc' = "done"
    /\ UNCHANGED <<editor_vars, output, back_buffer, rows, screen, frame, cursor, fs, arg,
                   input_byte, nread>>

\* The terminal is resized while the edit loop waits for a byte: height()
\* changes from one iteration to the next.
Resize ==
    /\ pc = "read"
    /\ \E h \in Heights \ {height} : rows' = h + 1
    /\ UNCHANGED <<editor_vars, output, back_buffer, lflag, screen, frame, cursor, fs, arg,
                   input_byte, nread, pc>>

\* An interrupt (SIGINT: ISIG stays set, line 149) while the loop is blocked
\* in sbumpc: the process is killed, no destructor runs.
Interrupt ==
    /\ pc = "read"
    /\ running
    /\ pc' = "killed"
    /\ UNCHANGED <<editor_vars, output, back_buffer, lflag, rows, screen, frame,
                   cursor, fs, arg, input_byte, nread>>

\* The window is resized between display and setup_back_buffer: each of them
\* asks the terminal for its size (height(), lines 170-175).
ResizeBeforeBackBuffer ==
    /\ pc = "backbuf"
    /\ \E h \in Heights \ {height} : rows' = h + 1
    /\ UNCHANGED <<editor_vars, output, back_buffer, lflag, screen, frame, cursor, fs, arg,
                   input_byte, nread, pc>>

Next ==
    \/ Startup
    \/ InitialDraw
    \/ \E c \in InputBytes : ReadInput(c)
    \/ AdjustOffset
    \/ Display
    \/ MoveCursor
    \/ SetupBackBuffer
    \/ Exit
    \/ Resize
    \/ Interrupt

Spec == Init /\ [][Next]_vars

\* The editor when the window may also be resized inside an iteration.
NextAnyResize == Next \/ ResizeBeforeBackBuffer

SpecAnyResize == Init /\ [][NextAnyResize]_vars

\* The editor in a window that keeps its size: the buffer, the cursor and
\* the files go through the same values as under Spec, which differs only
\* in line_offset and in what is drawn.
NextFixedWindow ==
    \/ Startup
    \/ InitialDraw
    \/ \E c \in InputBytes : ReadInput(c)
    \/ AdjustOffset
    \/ Display
    \/ MoveCursor
    \/ SetupBackBuffer
    \/ Exit
    \/ Interrupt

SpecFixedWindow == Init /\ [][NextFixedWindow]_vars

----------------------------------------------------------------------------
(* Properties. *)

\* The cursor is inside the buffer: line names a line, column a place in it.
CursorInside ==
    /\ 0 <= line /\ line < Len(lines)
    /\ 0 <= column /\ column <= Len(lines[line + 1])

\* This step is the loop reading the byte c and editor.input(c).
Reads(c) == nread' = nread + 1 /\ input_byte' = c

\* editor.input returned: no exception, no access outside the vector.
Returned == pc' = "adjust"

\* s without its element at 0-based index pos, said element by element.
IsWithout(t, s, pos) ==
    /\ Len(t) = Len(s) - 1
    /\ \A i \in 1..Len(t) : t[i] = IF i <= pos THEN s[i] ELSE s[i + 1]

\* t is s with x put in at 0-based index pos, said element by element.
IsWith(t, s, pos, x) ==
    /\ Len(t) = Len(s) + 1
    /\ t[pos + 1] = x
    /\ \A i \in 1..Len(s) : t[IF i <= pos THEN i ELSE i + 1] = s[i]

\* C1: from a buffer with at least one line and the cursor inside it, every
\* call of input, whatever the byte, returns and leaves the cursor inside:
\* 0 <= line < lines.size() and 0 <= column <= lines[line].size().
C1_CursorStaysInside ==
    [][(CursorInside /\ nread' = nread + 1) => (Returned /\ CursorInside')]_vars

\* K removed the last of three lines and the cursor moved up with it.
C1_Witness ==
    /\ pc = "adjust" /\ input_byte = "K" /\ CursorInside
    /\ Len(lines) = 2 /\ line = 1

\* C2: lines holds at least one line in every reachable state.
C2_AtLeastOneLine == Len(lines) >= 1

\* C3: after every adjust_offset of the edit loop, 0 <= line_offset <= line.
C3_OffsetWithinCursor ==
    pc = "display" => (0 <= line_offset /\ line_offset <= line)

Expected(r) ==
    IF line_offset + r <= Len(lines) THEN Trim(lines[line_offset + r]) ELSE << >>

\* C5: no stale glyphs: when an iteration has drawn (the cursor inside the
\* buffer and the window on it), each row r in 1..height shows the text of
\* lines[line_offset + r - 1] when that line exists and is blank otherwise.
C5_NoStaleGlyphs ==
    (pc = "backbuf" /\ CursorInside /\ 0 <= line_offset /\ line_offset <= line) =>
        \A r \in 1..height : screen[r] = Expected(r)

\* C6: newline with the cursor at (l, c) leaves one more line, the empty line
\* at index l + 1, the cursor at (l + 1, 0), and every line there was with
\* its content, in the same order.
C6_NewlineInsertsEmptyLineBelow ==
    [][(CursorInside /\ Reads(NL)) =>
          /\ Returned
          /\ IsWith(lines', lines, line + 1, << >>)
          /\ line' = line + 1
          /\ column' = 0]_vars

\* ["ab", "cd"] with the cursor at (0, 2) became ["ab", "", "cd"] with the
\* cursor at (1, 0).
C6_Witness ==
    /\ pc = "adjust" /\ input_byte = NL
    /\ lines = <<<<"a", "b">>, << >>, <<"c", "d">>>>
    /\ line = 1 /\ column = 0

\* C7: newline with the cursor at (l, c) splits the line: line l keeps the
\* characters before column c, the line below (index l + 1) gets those at and
\* after column c, and the cursor is at column 0 of that line.
C7_NewlineSplitsLine ==
    [][(CursorInside /\ Reads(NL)) =>
          /\ Returned
          /\ Len(lines') = Len(lines) + 1
          /\ lines'[line + 1] = SubSeq(lines[line + 1], 1, column)
          /\ lines'[line + 2] = SubSeq(lines[line + 1], column + 1, Len(lines[line + 1]))
          /\ line' = line + 1
          /\ column' = 0]_vars

\* C8: backspace (0x08 or 0x7F) changes nothing when column == 0; otherwise it
\* removes the character at index column - 1 of the current line and
\* decrements column, and leaves the line index and every other line alone.
C8_Backspace ==
    [][(CursorInside /\ (Reads(BS) \/ Reads(DEL))) =>
          /\ Returned
          /\ line' = line
          /\ IF column = 0
             THEN lines' = lines /\ column' = 0
             ELSE /\ column' = column - 1
                  /\ Len(lines') = Len(lines)
                  /\ IsWithout(lines'[line + 1], lines[line + 1], column - 1)
                  /\ \A i \in 1..Len(lines) : i # line + 1 => lines'[i] = lines[i]]_vars

\* Backspace at the end of "hello" left "hell" and the cursor at column 4.
C8_Witness ==
    /\ pc = "adjust" /\ input_byte \in {BS, DEL}
    /\ lines = <<<<"h", "e", "l", "l">>>>
    /\ line = 0 /\ column = 4

\* C9: with the cursor inside the buffer, inserting a literal character and
\* then backspace gives back lines, line and column as they were.
C9_InsertThenBackspace ==
    CursorInside =>
        \A ch \in Literals, bs \in {BS, DEL} : input(input(Ed, ch), bs) = Ed

\* A literal character was inserted in the middle of a line.
C9_Witness ==
    /\ pc = "adjust" /\ input_byte \in Literals /\ CursorInside
    /\ 1 < column /\ column < Len(lines[line + 1])

\* C10: K on at least two lines removes the line at the cursor and no other,
\* sets column to 0 and keeps the line index, but for the last line, where
\* the index goes down by 1; K on a single line changes nothing.
C10_KillLine ==
    [][(CursorInside /\ Reads("K")) =>
          /\ Returned
          /\ IF Len(lines) >= 2
             THEN /\ IsWithout(lines', lines, line)
                  /\ column' = 0
                  /\ line' = IF line = Len(lines) - 1 THEN line - 1 ELSE line
             ELSE UNCHANGED <<lines, line, column>>]_vars

\* K on the first of ["ab", "cd"] left ["cd"] and the cursor at (0, 0).
C10_Witness ==
    /\ pc = "adjust" /\ input_byte = "K" /\ nread = 1
    /\ lines = <<<<"c", "d">>>>
    /\ line = 0 /\ column = 0

\* C11: save() and then load() on the same path leaves lines as they were at
\* the save: as many lines, in the same order, each with the same content.
C11_SaveThenLoad == load(Saved("S")[output]) = lines

\* S has written a buffer that ends with an empty line, and the file reads
\* back as that buffer.
C11_Witness ==
    /\ pc = "adjust" /\ input_byte = "S"
    /\ Len(lines) >= 2 /\ lines[Len(lines)] = << >> /\ lines[1] # << >>
    /\ fs[output].exists /\ load(fs[output]) = lines

\* C12 as claimed: started without a file argument, the buffer starts as the
\* single empty line and no path is bound for save: no file is ever written.
C12_NoPathBound ==
    arg = NoArg =>
        /\ pc = "draw" => lines = << << >> >>
        /\ \A p \in Paths : fs[p] = NoFile

\* C12 as the code has it: started without a file argument, the buffer starts
\* as the single empty line and the path save uses is the default "out": S
\* writes the lines, each ended by a newline, to the file out, and no other
\* step and no other file is written.
C12_SaveToDefaultPath ==
    [][arg = NoArg =>
          /\ pc = "start" => (lines' = << << >> >> /\ output' = "out")
          /\ IF Reads("S")
             THEN Returned /\ fs' = [fs EXCEPT !["out"] = File(SaveBytes(lines))]
             ELSE fs' = fs]_vars

\* Without a file argument, S after a literal has written the file out.
C12_Witness ==
    /\ arg = NoArg /\ pc = "adjust" /\ input_byte = "S"
    /\ lines # << << >> >>
    /\ fs["out"] = File(SaveBytes(lines))
    /\ fs[ArgPath] = NoFile

\* C13: quit (Q) sets running to false and changes none of lines, line,
\* column, line_offset; once running is false it stays false, no further
\* byte is read and the buffer and the cursor stay as they are.
C13_Quit ==
    [][/\ Reads("Q") =>
            /\ Returned
            /\ running' = FALSE
            /\ UNCHANGED <<lines, line, column, line_offset>>
       /\ ~running =>
            /\ running' = FALSE
            /\ nread' = nread
            /\ UNCHANGED <<lines, line, column>>]_vars

\* The loop has ended after Q with bytes still unread.
C13_Witness ==
    /\ pc = "done" /\ ~running /\ input_byte = "Q"
    /\ 0 < nread /\ nread < MaxInputs

\* C14: raw mode (ECHO and ICANON off) is acquired at startup, and when the
\* process has ended, after quit or killed by an interrupt during the
\* blocking read, the terminal is back in its original mode.
C14_TerminalRestored ==
    /\ pc \in {"draw", "read", "adjust", "display", "cursor", "backbuf"} =>
          lflag = { }
    /\ pc \in {"done", "killed"} => lflag = {"ECHO", "ICANON"}

\* The line index the movement table gives for the byte c.
TableLine(c) ==
    CASE c = "N" -> IF line + 1 > Len(lines) - 1 THEN Len(lines) - 1 ELSE line + 1
      [] c = "P" -> IF line - 1 < 0 THEN 0 ELSE line - 1
      [] c = "V" -> IF line + 10 > Len(lines) - 1 THEN Len(lines) - 1 ELSE line + 10
      [] c = "C" -> IF line - 10 < 0 THEN 0 ELSE line - 10
      [] OTHER -> line

\* The column the movement table gives for the byte c.
TableColumn(c) ==
    LET len == Len(lines[line + 1])
        newlen == Len(lines[TableLine(c) + 1])
    IN  CASE c = "B" -> IF column - 1 < 0 THEN 0 ELSE column - 1
          [] c = "F" -> IF column + 1 > len THEN len ELSE column + 1
          [] c = "A" -> 0
          [] c = "E" -> len
          [] OTHER -> IF column > newlen THEN newlen ELSE column

\* C15: every movement command gives the clamped cursor of the movement
\* table and leaves lines unchanged: B and F move column by one within
\* [0, len]; N, P move line by one and V, C by ten within
\* [0, lines.size() - 1] and then clamp column to the new line's length; A
\* gives column 0 and E the line's length.
C15_MovementTable ==
    [][\A c \in {"B", "F", "N", "P", "A", "E", "V", "C"} :
          (CursorInside /\ Reads(c)) =>
              /\ Returned
              /\ lines' = lines
              /\ line' = TableLine(c)
              /\ column' = TableColumn(c)]_vars

\* V from the end of "ab", the first of twelve lines, went down ten lines,
\* short of the clamp, to an empty line: column 0.
C15_Witness ==
    /\ pc = "adjust" /\ input_byte = "V" /\ nread = 2
    /\ Len(lines) = 12 /\ lines[1] = <<"a", "b">>
    /\ line = 10 /\ column = 0

\* Only the current line may differ: the line index, the number of lines and
\* every other line are as before.
OnlyCurrentLine ==
    /\ line' = line
    /\ Len(lines') = Len(lines)
    /\ \A i \in 1..Len(lines) : i # line + 1 => lines'[i] = lines[i]

\* C16: a byte that is no command is inserted at index column of
\* lines[line] and column advances by 1; tab inserts exactly 4 spaces there
\* and column advances by 4; the characters before and after keep their
\* order, and the line index, the number of lines and every other line are
\* unchanged.
C16_InsertText ==
    [][/\ \A c \in Literals :
            (CursorInside /\ Reads(c)) =>
                /\ Returned
                /\ IsWith(lines'[line + 1], lines[line + 1], column, c)
                /\ column' = column + 1
                /\ OnlyCurrentLine
       /\ (CursorInside /\ Reads(TAB)) =>
            /\ Returned
            /\ lines'[line + 1] =
                  SubSeq(lines[line + 1], 1, column) \o <<" ", " ", " ", " ">>
                  \o SubSeq(lines[line + 1], column + 1, Len(lines[line + 1]))
            /\ column' = column + 4
            /\ OnlyCurrentLine]_vars

\* Tab between the a and the b of "ab", the first of two lines.
C16_Witness ==
    /\ pc = "adjust" /\ input_byte = TAB
    /\ lines = <<<<"a", " ", " ", " ", " ", "b">>, <<"c", "d">>>>
    /\ line = 0 /\ column = 5

\* C17: in every display call of the loop, a row whose line is shorter than
\* what the previous display drew on that row gets exactly the difference in
\* blanks after it, any other row gets none; and the back buffer entry
\* consulted for a row is what the previous display drew on that row.
C17_PaddingCoversStaleTail ==
    [][pc = "display" =>
        \A r \in 1..Len(frame') :
            /\ r <= Len(back_buffer) =>
                    (r <= Len(frame) /\ back_buffer[r] = frame[r].text)
            /\ frame'[r].pad =
                    IF r <= Len(frame) /\ Len(frame'[r].text) < Len(frame[r].text)
                    THEN Len(frame[r].text) - Len(frame'[r].text)
                    ELSE 0]_vars

\* The order of the steps of one iteration: a unit is read and applied, then
\* adjust_offset, display, move_cursor and the back-buffer update, each
\* entered only from the one before it.
LoopOrder ==
    /\ pc' # pc =>
        /\ pc' = "adjust" => pc = "read" /\ nread' = nread + 1
        /\ pc' = "display" => pc = "adjust"
        /\ pc' = "cursor" => pc = "display"
        /\ pc' = "backbuf" => pc = "cursor"
        /\ pc' = "read" => pc \in {"draw", "backbuf"}
    /\ nread' # nread => pc = "read" /\ nread' = nread + 1

\* C18: every iteration reads and applies one unit, then runs adjust_offset,
\* display, move_cursor and the back-buffer update in this order, and the
\* line_offset that display and move_cursor use satisfies
\* 0 <= line_offset <= line.
C18_AdjustBeforeRender ==
    [][/\ LoopOrder
       /\ pc' \in {"display", "cursor"} =>
            (0 <= line_offset' /\ line_offset' <= line')]_vars

\* C19: O inserts exactly one empty line at the cursor's line index: lines
\* has one more element, lines[line] is empty, the line that was at the
\* cursor is at line + 1, every other line keeps its content and order, the
\* line index is unchanged and column is 0.
C19_OpenLine ==
    [][(CursorInside /\ Reads("O")) =>
        /\ Returned
        /\ Len(lines') = Len(lines) + 1
        /\ lines'[line + 1] = << >>
        /\ lines'[line + 2] = lines[line + 1]
        /\ IsWith(lines', lines, line, << >>)
        /\ line' = line
        /\ column' = 0]_vars

\* E, N, O on "ab", "cd": the empty line is at index 1, "cd" below it.
C19_Witness ==
    /\ pc = "adjust" /\ input_byte = "O" /\ nread = 3
    /\ lines = <<<<"a", "b">>, << >>, <<"c", "d">>>>
    /\ line = 1 /\ column = 0

\* C20: adjust_offset leaves line_offset alone when the cursor line is
\* inside the window, sets it to line + 1 - height when the cursor is below
\* the window and to line when it is above; it never changes lines, line or
\* column, and a second call with the same height changes nothing.
C20_AdjustOffsetMinimal ==
    [][pc = "adjust" =>
        /\ (line_offset <= line /\ line < line_offset + height) =>
                line_offset' = line_offset
        /\ line >= line_offset + height => line_offset' = line + 1 - height
        /\ line < line_offset => line_offset' = line
        /\ UNCHANGED <<lines, line, column>>
        /\ adjust_offset(adjust_offset(Ed, height), height)
                = adjust_offset(Ed, height)
        /\ adjust_offset(Ed, height).line_offset = line_offset']_vars

\* V on the twelve-line file: the cursor lands on the last visible row.
C20_Witness ==
    /\ pc = "display" /\ input_byte = "V" /\ nread = 1
    /\ line = 10 /\ line_offset = line + 1 - height

=============================================================================
